---- MODULE Spec2Model ----
(***************************************************************************)
(* A model of organize.py: load_rules builds the extension -> folder       *)
(* table from the JSON configuration, organize_files walks the entries of  *)
(* one directory and moves (or, in a dry run, only reports) every regular  *)
(* file whose suffix the table knows into the sub-directory of its folder. *)
(*                                                                         *)
(* Strings are sequences of one-character strings, so that str.lower and   *)
(* pathlib's suffix are computed, not assumed.  The file system is the     *)
(* target directory (top: entry name -> kind) and the content of the       *)
(* sub-directories the configuration can name (sub).  An entry of kind     *)
(* "dir" is anything Path.is_dir() accepts, "file" a regular file, "link"  *)
(* a symbolic link to a regular file, "other" anything else that exists (a *)
(* fifo, a socket, a dangling link).  logging calls add to log.            *)
(***************************************************************************)
EXTENDS Naturals, Sequences, FiniteSets

VARIABLES
    cfgStatus,  \* "ok", "missing" (FileNotFoundError), "invalid" (JSONDecodeError)
    config,     \* the JSON object: a sequence of <<folder_name, extensions>>
    rules,      \* the table load_rules returned
    pathKind,   \* what the path argument names: "missing", "file", "dir"
    dryRun,     \* arg_dry_run
    top,        \* entries directly in the target directory: name -> kind
    sub,        \* content of the sub-directories: folder -> (name -> origin)
    top0,       \* top when the program started
    sub0,       \* sub when the program started
    pc,         \* where the program is
    err,        \* the exception organize_files raised, "" when none
    raisedOn,   \* the item the loop was at when an exception left it
    run,        \* number of calls of organize_files so far
    listing,    \* what path.iterdir() yielded in the current call
    todo,       \* entries of listing the loop has not reached yet
    log,        \* the records logging wrote inside organize_files; a record
                \* names its call and its item, the order of writing is the
                \* order of the loop, which nothing reads
    query,      \* the item handed to get_file_folder (table specification)
    result      \* what get_file_folder returned (table specification)

vars == <<cfgStatus, config, rules, pathKind, dryRun, top, sub, top0, sub0,
          pc, err, raisedOn, run, listing, todo, log, query, result>>

----------------------------------------------------------------------------
(* Bounds of the model. *)

\* entries in the target directory when the program starts
MaxEntries == 3
\* files already inside one category sub-directory when the program starts
MaxSubEntries == 1
\* entries in the target directory when organize_files is called repeatedly
MaxEntriesTwice == 2
\* calls of organize_files in immediate succession
MaxRuns == 2
\* extensions listed under one folder (table specification)
MaxExts == 2

----------------------------------------------------------------------------
(* Strings. *)

\* str.lower(), one character
LowerChar(c) ==
    CASE c = "J" -> "j"
      [] c = "P" -> "p"
      [] c = "T" -> "t"
      [] OTHER -> c

\* str.lower()
Lower(s) == [i \in 1..Len(s) |-> LowerChar(s[i])]

\* pathlib.PurePath.suffix: i = name.rfind('.'); name[i:] if 0 < i < len(name) - 1
\* (0-based), else ''
Suffix(name) ==
    LET dots == {i \in 1..Len(name) : name[i] = "."}
    IN  IF dots = {} THEN <<>>
        ELSE LET i == CHOOSE d \in dots : \A e \in dots : e <= d
             IN  IF 1 < i /\ i < Len(name) THEN SubSeq(name, i, Len(name))
                 ELSE <<>>

\* dict.get's default; no string of the model is a one-element sequence
\* holding "None"
None == <<"None">>

EmptyDict == <<>>

\* d[k] = v
Put(d, k, v) == [x \in (DOMAIN d) \cup {k} |-> IF x = k THEN v ELSE d[x]]

\* d.get(k)
Get(d, k) == IF k \in DOMAIN d THEN d[k] ELSE None

\* truth value of what dict.get returned: None and '' are false
Truthy(folder_name) == folder_name # None /\ folder_name # <<>>

----------------------------------------------------------------------------
(* load_rules and get_file_folder. *)

\* a bug load_rules could have: the first folder listing an extension keeps it
RECURSIVE InvertExtsFirstWins(_, _, _)
InvertExtsFirstWins(inverted_rules, folder_name, extensions) ==
    IF extensions = <<>> THEN inverted_rules
    ELSE LET ext == Lower(Head(extensions))
         IN  InvertExtsFirstWins(
                 IF ext \in DOMAIN inverted_rules THEN inverted_rules
                 ELSE Put(inverted_rules, ext, folder_name),
                 folder_name, Tail(extensions))

\* for ext in extensions: inverted_rules[ext.lower()] = folder_name
RECURSIVE InvertExts(_, _, _)
InvertExts(inverted_rules, folder_name, extensions) ==
    IF extensions = <<>> THEN inverted_rules
    ELSE InvertExts(Put(inverted_rules, Lower(Head(extensions)), folder_name),
                    folder_name, Tail(extensions))

\* for folder_name, extensions in rules.items(): ...
RECURSIVE InvertRules(_, _)
InvertRules(inverted_rules, items) ==
    IF items = <<>> THEN inverted_rules
    ELSE InvertRules(InvertExts(inverted_rules, Head(items)[1], Head(items)[2]),
                     Tail(items))

\* load_rules: {} when the file is missing or is not JSON, else the inverted
\* table
load_rules(status, cfg) ==
    IF status # "ok" THEN EmptyDict ELSE InvertRules(EmptyDict, cfg)

\* get_file_folder: rules.get(item.suffix.lower())
get_file_folder(item, rls) == Get(rls, Lower(Suffix(item)))

----------------------------------------------------------------------------
(* The names and the configurations of the model. *)

aJ == <<"a", ".", "J">>
bp == <<"b", ".", "p">>
ct == <<"c", ".", "t">>
FolderI == <<"I">>
FolderD == <<"D">>

\* names files of the directory can carry
FileNames == {aJ, bp, ct}

\* names the configurations give to folders
FolderNames == {FolderI, FolderD}

\* names an entry of the target directory can carry
Names == FileNames \cup FolderNames

Kinds == {"file", "dir", "link", "other"}

\* {"I": [".j", ".P"], "D": [".p"]}: ".p" is listed twice
ConfigTwoFolders ==
    << <<FolderI, << <<".", "j">>, <<".", "P">> >> >>,
       <<FolderD, << <<".", "p">> >> >> >>

\* {"": [".j"], "D": [".p"]}: a folder named by the empty string
ConfigEmptyName ==
    << << <<>>,   << <<".", "j">> >> >>,
       <<FolderD, << <<".", "p">> >> >> >>

\* {}
ConfigNoRules == <<>>

Configs == {ConfigTwoFolders, ConfigEmptyName, ConfigNoRules}

EmptyDir == [n \in Names |-> "none"]
EmptySub == [c \in FolderNames |-> [n \in FileNames |-> "none"]]

Entries(t) == {n \in Names : t[n] # "none"}

----------------------------------------------------------------------------
(* The file-system calls organize_files makes. *)

\* Path.is_file(): follows symbolic links
is_file(kind) == kind \in {"file", "link"}

\* a bug the preconditions could have: the directory test first
PreconditionDirCheckFirst(pk) ==
    IF pk # "dir" THEN "NotADirectoryError"
    ELSE IF pk = "missing" THEN "FileNotFoundError"
    ELSE "ok"

\* the two tests organize_files starts with, in their order
Precondition(pk) ==
    IF pk = "missing" THEN "FileNotFoundError"
    ELSE IF pk # "dir" THEN "NotADirectoryError"
    ELSE "ok"

\* folder_path.mkdir(exist_ok=True): what it does or raises.  ioOk is the
\* environment: whether the operating system lets the program create the
\* directory.
Mkdir(t, folder_name, ioOk) ==
    CASE t[folder_name] = "dir"  -> "exists"
      [] t[folder_name] = "none" -> IF ioOk THEN "created" ELSE "PermissionError"
      [] OTHER                   -> "FileExistsError"

AfterMkdir(t, folder_name) ==
    IF t[folder_name] = "none" THEN [t EXCEPT ![folder_name] = "dir"] ELSE t

\* a bug the move could have: os.replace, which renames over the destination
ShutilMoveReplace(t, s, item, folder_name, ioOk) ==
    IF ~ioOk
    THEN [ok |-> FALSE, top |-> t, sub |-> s]
    ELSE [ok |-> TRUE,
          top |-> [t EXCEPT ![item] = "none"],
          sub |-> [s EXCEPT ![folder_name][item] = "new"]]

\* a bug the move could have: shutil.copy, which overwrites the destination
\* and leaves the source
ShutilMoveCopy(t, s, item, folder_name, ioOk) ==
    IF ~ioOk
    THEN [ok |-> FALSE, top |-> t, sub |-> s]
    ELSE [ok |-> TRUE,
          top |-> t,
          sub |-> [s EXCEPT ![folder_name][item] = "new"]]

\* shutil.move(str(item), str(folder_path)) with folder_path a directory:
\* raises shutil.Error when folder_path/item.name exists, else os.rename,
\* which the environment may refuse (ioOk); a refused move leaves both
\* directories as they were
ShutilMove(t, s, item, folder_name, ioOk) ==
    IF s[folder_name][item] # "none" \/ ~ioOk
    THEN [ok |-> FALSE, top |-> t, sub |-> s]
    ELSE [ok |-> TRUE,
          top |-> [t EXCEPT ![item] = "none"],
          sub |-> [s EXCEPT ![folder_name][item] = "new"]]

\* one record of the log
Record(item, kind, folder_name) ==
    [run |-> run, name |-> item, kind |-> kind, folder |-> folder_name]

----------------------------------------------------------------------------
(* The program. *)

\* main: rules = load_rules(args.config); if not rules: halt
LoadRules ==
    /\ pc = "start"
    /\ rules' = load_rules(cfgStatus, config)
    /\ pc' = IF rules' = EmptyDict THEN "halted" ELSE "ready"
    /\ UNCHANGED <<cfgStatus, config, pathKind, dryRun, top, sub, top0, sub0,
                   err, raisedOn, run, listing, todo, log, query, result>>

\* organize_files, a precondition fails
Raises ==
    /\ Precondition(pathKind) # "ok"
    /\ pc' = "raised"
    /\ err' = Precondition(pathKind)
    /\ raisedOn' = None
    /\ run' = run + 1
    /\ listing' = {}
    /\ todo' = {}
    /\ UNCHANGED <<cfgStatus, config, rules, pathKind, dryRun, top, sub, top0,
                   sub0, log, query, result>>

\* organize_files, the preconditions hold: path.iterdir() lists the directory
Iterates ==
    /\ Precondition(pathKind) = "ok"
    /\ pc' = "running"
    /\ err' = ""
    /\ raisedOn' = None
    /\ run' = run + 1
    /\ listing' = Entries(top)
    /\ todo' = Entries(top)
    /\ UNCHANGED <<cfgStatus, config, rules, pathKind, dryRun, top, sub, top0,
                   sub0, log, query, result>>

\* main calls organize_files
CallRaises == pc = "ready" /\ Raises
CallIterates == pc = "ready" /\ Iterates

\* organize_files is called again, right after a call ended, on the same
\* directory with the same rules
CallAgainRaises == pc \in {"done", "raised"} /\ run < MaxRuns /\ Raises
CallAgainIterates == pc \in {"done", "raised"} /\ run < MaxRuns /\ Iterates

\* the loop body, item is not a file: else branch of item.is_file()
SkipNonFile(item) ==
    /\ pc = "running"
    /\ item \in todo
    /\ ~is_file(top[item])
    /\ log' = log \cup {Record(item, "skipped-not-a-file", None)}
    /\ todo' = todo \ {item}
    /\ UNCHANGED <<cfgStatus, config, rules, pathKind, dryRun, top, sub, top0,
                   sub0, pc, err, raisedOn, run, listing, query, result>>

\* the loop body, folder_name is None or '': nothing is done, nothing logged
SkipNoMatch(item) ==
    /\ pc = "running"
    /\ item \in todo
    /\ is_file(top[item])
    /\ ~Truthy(get_file_folder(item, rules))
    /\ todo' = todo \ {item}
    /\ UNCHANGED <<cfgStatus, config, rules, pathKind, dryRun, top, sub, top0,
                   sub0, pc, err, raisedOn, run, listing, log, query, result>>

\* the loop body, folder_path.mkdir raises: it is outside the try, so the
\* exception leaves organize_files
MkdirRaises(item, ioOk) ==
    /\ pc = "running"
    /\ item \in todo
    /\ is_file(top[item])
    /\ LET folder_name == get_file_folder(item, rules)
       IN  /\ Truthy(folder_name)
           /\ Mkdir(top, folder_name, ioOk) \in {"FileExistsError", "PermissionError"}
           /\ err' = Mkdir(top, folder_name, ioOk)
    /\ raisedOn' = item
    /\ pc' = "raised"
    /\ UNCHANGED <<cfgStatus, config, rules, pathKind, dryRun, top, sub, top0,
                   sub0, run, listing, todo, log, query, result>>

\* the loop body in a dry run: mkdir, then the "Dry run" record
DryRunItem(item, ioOk) ==
    /\ pc = "running"
    /\ item \in todo
    /\ is_file(top[item])
    /\ dryRun
    /\ LET folder_name == get_file_folder(item, rules)
       IN  /\ Truthy(folder_name)
           /\ Mkdir(top, folder_name, ioOk) \in {"exists", "created"}
           /\ top' = AfterMkdir(top, folder_name)
           /\ log' = log \cup {Record(item, "simulated", folder_name)}
    /\ todo' = todo \ {item}
    /\ UNCHANGED <<cfgStatus, config, rules, pathKind, dryRun, sub, top0, sub0,
                   pc, err, raisedOn, run, listing, query, result>>

\* the loop body otherwise: mkdir, shutil.move, and the "Moved" record or, when
\* the move raises, the "Error moving" record
MoveItem(item, ioMkdir, ioMove) ==
    /\ pc = "running"
    /\ item \in todo
    /\ is_file(top[item])
    /\ ~dryRun
    /\ LET folder_name == get_file_folder(item, rules)
       IN  /\ Truthy(folder_name)
           /\ Mkdir(top, folder_name, ioMkdir) \in {"exists", "created"}
           /\ LET moved == ShutilMove(AfterMkdir(top, folder_name), sub, item,
                                      folder_name, ioMove)
              IN  /\ top' = moved.top
                  /\ sub' = moved.sub
                  /\ log' = log \cup {Record(item,
                                IF moved.ok THEN "moved" ELSE "failed", folder_name)}
    /\ todo' = todo \ {item}
    /\ UNCHANGED <<cfgStatus, config, rules, pathKind, dryRun, top0, sub0, pc,
                   err, raisedOn, run, listing, query, result>>

\* the loop is over: organize_files returns
Return ==
    /\ pc = "running"
    /\ todo = {}
    /\ pc' = "done"
    /\ UNCHANGED <<cfgStatus, config, rules, pathKind, dryRun, top, sub, top0,
                   sub0, err, raisedOn, run, listing, todo, log, query, result>>

\* directories the program can be started on: a missing path and a path that
\* is a file have no entries
StartDirs(pk) ==
    IF pk # "dir" THEN {EmptyDir}
    ELSE {t \in [Names -> Kinds \cup {"none"}] :
              Cardinality(Entries(t)) <= MaxEntries}

\* contents of the sub-directories at the start: only a directory has any
StartSubs(t) ==
    {s \in [FolderNames -> [FileNames -> {"none", "old"}]] :
        \A c \in FolderNames :
            /\ t[c] # "dir" => s[c] = EmptySub[c]
            /\ Cardinality({n \in FileNames : s[c][n] = "old"}) <= MaxSubEntries}

Init ==
    /\ cfgStatus \in {"ok", "missing", "invalid"}
    /\ config \in Configs
    /\ cfgStatus # "ok" => config = ConfigNoRules
    /\ rules = EmptyDict
    /\ pathKind \in {"missing", "file", "dir"}
    /\ dryRun \in BOOLEAN
    /\ top \in StartDirs(pathKind)
    /\ sub \in StartSubs(top)
    /\ top0 = top
    /\ sub0 = sub
    /\ pc = "start"
    /\ err = ""
    /\ raisedOn = None
    /\ run = 0
    /\ listing = {}
    /\ todo = {}
    /\ log = {}
    /\ query = <<>>
    /\ result = None

Next ==
    \/ LoadRules
    \/ CallRaises
    \/ CallIterates
    \/ \E item \in Names : SkipNonFile(item)
    \/ \E item \in Names : SkipNoMatch(item)
    \/ \E item \in Names, ioOk \in BOOLEAN : MkdirRaises(item, ioOk)
    \/ \E item \in Names, ioOk \in BOOLEAN : DryRunItem(item, ioOk)
    \/ \E item \in Names, ioMkdir \in BOOLEAN, ioMove \in BOOLEAN :
           MoveItem(item, ioMkdir, ioMove)
    \/ Return

Spec == Init /\ [][Next]_vars

\* two calls in immediate succession
InitTwice ==
    /\ Init
    /\ Cardinality(Entries(top)) <= MaxEntriesTwice

NextTwice ==
    \/ LoadRules
    \/ CallRaises
    \/ CallIterates
    \/ CallAgainRaises
    \/ CallAgainIterates
    \/ \E item \in Names : SkipNonFile(item)
    \/ \E item \in Names : SkipNoMatch(item)
    \/ \E item \in Names, ioOk \in BOOLEAN : MkdirRaises(item, ioOk)
    \/ \E item \in Names, ioOk \in BOOLEAN : DryRunItem(item, ioOk)
    \/ \E item \in Names, ioMkdir \in BOOLEAN, ioMove \in BOOLEAN :
           MoveItem(item, ioMkdir, ioMove)
    \/ Return

SpecTwice == InitTwice /\ [][NextTwice]_vars

----------------------------------------------------------------------------
(* The table alone: load_rules on every configuration within the bounds,  *)
(* then get_file_folder on items of every letter case.                     *)

dotj == <<".", "j">>
dotJ == <<".", "J">>
dotp == <<".", "p">>

\* extensions a configuration lists
ExtStrs == {dotj, dotJ, dotp}

ExtSeqs == UNION {[1..n -> ExtStrs] : n \in 0..MaxExts}

\* every JSON object over FolderNames: the keys of an object are distinct
AllConfigs ==
    UNION {{c \in [1..n -> FolderNames \X ExtSeqs] :
                \A i, j \in 1..n : i # j => c[i][1] # c[j][1]} :
           n \in 0..Cardinality(FolderNames)}

\* a file whose suffix is x
ItemOf(x) == <<"f">> \o x

\* items looked up: one per extension, a hidden file, a name without a dot
\* and a name with two
QueryItems ==
    {ItemOf(x) : x \in ExtStrs \cup {<<".", "P">>, <<".", "t">>}}
        \cup {dotj, <<"f">>, <<"f", ".", "p", ".", "J">>}

InitRules ==
    /\ cfgStatus \in {"ok", "missing", "invalid"}
    /\ config \in AllConfigs
    /\ cfgStatus # "ok" => config = ConfigNoRules
    /\ rules = EmptyDict
    /\ pathKind = "dir"
    /\ dryRun = FALSE
    /\ top = EmptyDir
    /\ sub = EmptySub
    /\ top0 = top
    /\ sub0 = sub
    /\ pc = "start"
    /\ err = ""
    /\ raisedOn = None
    /\ run = 0
    /\ listing = {}
    /\ todo = {}
    /\ log = {}
    /\ query = <<>>
    /\ result = None

\* get_file_folder(item, rules) on the table load_rules returned
Lookup(item) ==
    /\ pc \in {"ready", "halted"}
    /\ query' = item
    /\ result' = get_file_folder(item, rules)
    /\ UNCHANGED <<cfgStatus, config, rules, pathKind, dryRun, top, sub, top0,
                   sub0, pc, err, raisedOn, run, listing, todo, log>>

NextRules ==
    \/ LoadRules
    \/ \E item \in QueryItems : Lookup(item)

SpecRules == InitRules /\ [][NextRules]_vars

----------------------------------------------------------------------------
(* What the claims speak of. *)

\* the log holds a record of that kind for that item, written by call r
Outcome(r, n, kind) ==
    \E rec \in log : rec.run = r /\ rec.name = n /\ rec.kind = kind

\* the folder the table gives the entry
FolderOf(n) == get_file_folder(n, rules)

\* a call of organize_files that passed its preconditions has ended
Ended == pathKind = "dir" /\ pc \in {"done", "raised"}

\* the entry is where it was, the sub-directories do not hold it as a new file
InPlace(n) ==
    /\ top[n] = top0[n]
    /\ n \in FileNames => \A c \in FolderNames : sub[c][n] # "new"

\* the entry is in the sub-directory c under its name and no longer in the
\* target directory
RelocatedTo(n, c) ==
    /\ top[n] = "none"
    /\ top[c] = "dir"
    /\ sub[c][n] = "new"

----------------------------------------------------------------------------
(* The claims. *)

\* C1: in a dry run the entries of the target directory, sub-directories
\* included, are at every moment those that existed before the call.
DryRunLeavesDirectoryUnchanged ==
    dryRun => (top = top0 /\ sub = sub0)

\* C2: once the preconditions pass, organize_files does not fail as a whole:
\* the call never ends in an exception, and when it returns every entry of
\* the listing has been processed.
CallFailsOnlyOnPreconditions ==
    /\ pc = "raised" =>
           /\ pathKind # "dir"
           /\ err \in {"FileNotFoundError", "NotADirectoryError"}
    /\ pc = "done" => todo = {}

\* C3: when a call that moves files has ended, every regular file of the
\* target directory whose suffix the table maps to folder C and whose move
\* did not fail (no failed record, and no exception while the loop was at
\* it) is in <target>/C under its name, no longer in the target directory,
\* and C is a sub-directory.
MoveOnMatch ==
    (Ended /\ ~dryRun) =>
        \A n \in FileNames :
            (/\ top0[n] = "file"
             /\ FolderOf(n) \in FolderNames
             /\ ~Outcome(1, n, "failed")
             /\ raisedOn # n)
            => RelocatedTo(n, FolderOf(n))

\* C4: on a path that does not exist organize_files raises FileNotFoundError,
\* on a path that exists and is not a directory NotADirectoryError; in both
\* cases no directory is created, no file moved, no entry listed or logged.
PreconditionEnforcement ==
    /\ (pathKind = "missing" /\ run > 0) =>
           (pc = "raised" /\ err = "FileNotFoundError")
    /\ (pathKind = "file" /\ run > 0) =>
           (pc = "raised" /\ err = "NotADirectoryError")
    /\ pathKind # "dir" =>
           /\ top = top0
           /\ sub = sub0
           /\ log = {}
           /\ listing = {}
           /\ todo = {}

\* C4, its case: the path is a file and the call has raised
PreconditionEnforcementWitness ==
    pathKind = "file" /\ run = 1 /\ pc = "raised" /\ err = "NotADirectoryError"

\* C5: when a call that moves files has ended and the move of a matching file
\* failed, the call returned, every matching file has one outcome, moved or
\* failed, the failed ones are where they were and the others are moved.
PartialFailureIsolation ==
    (Ended /\ ~dryRun /\ \E f \in FileNames : Outcome(1, f, "failed")) =>
        /\ pc = "done"
        /\ \A n \in FileNames :
               (top0[n] = "file" /\ FolderOf(n) \in FolderNames) =>
                   /\ Outcome(1, n, "moved") # Outcome(1, n, "failed")
                   /\ Outcome(1, n, "failed") => InPlace(n)
                   /\ Outcome(1, n, "moved") => RelocatedTo(n, FolderOf(n))

\* C6: when a call has returned, every entry of the listing that is not a
\* regular file has a skipped-not-a-file record, no other record, and is
\* where it was.
NonFilesAreSkipped ==
    pc = "done" =>
        \A n \in listing :
            top0[n] # "file" =>
                /\ Outcome(1, n, "skipped-not-a-file")
                /\ \A rec \in log :
                       rec.name = n => rec.kind = "skipped-not-a-file"
                /\ InPlace(n)

\* C7: when a call has returned, every regular file of the listing whose
\* lower-cased suffix is no key of the table got no folder from the lookup,
\* is where it was, and has a skipped-no-match record.
NoMatchIsSkippedAndRecorded ==
    pc = "done" =>
        \A n \in listing :
            (top0[n] = "file" /\ Lower(Suffix(n)) \notin DOMAIN rules) =>
                /\ FolderOf(n) = None
                /\ InPlace(n)
                /\ Outcome(1, n, "skipped-no-match")

\* the places of the configuration, <<i, j>> for the j-th extension of the
\* i-th folder, whose extension is x up to letter case
PairsFor(cfg, x) ==
    {p \in (1..Len(cfg)) \X (1..MaxExts) :
        /\ p[2] <= Len(cfg[p[1]][2])
        /\ Lower(cfg[p[1]][2][p[2]]) = Lower(x)}

\* the folder of the last such place in configuration order, None without one
LastFolderFor(cfg, x) ==
    LET hits == PairsFor(cfg, x)
    IN  IF hits = {} THEN None
        ELSE LET last == CHOOSE h \in hits :
                             \A g \in hits :
                                 g[1] < h[1] \/ (g[1] = h[1] /\ g[2] <= h[2])
             IN  cfg[last[1]][1]

\* C8: for every configuration and every extension x in any letter case, the
\* lookup of a file with suffix x returns the folder of the last (folder,
\* extension) pair, in configuration order, whose extension equals x up to
\* letter case, and None when there is none.
LookupEqualsReference ==
    \A x \in ExtStrs \cup {<<".", "P">>, <<".", "t">>} :
        query = ItemOf(x) => result = LastFolderFor(config, x)

\* C8, its case: an upper-case extension listed, up to case, under both
\* folders, resolved to the second
LookupEqualsReferenceWitness ==
    /\ query = ItemOf(dotJ)
    /\ Len(config) = 2
    /\ \A i \in 1..2 : \E p \in PairsFor(config, dotJ) : p[1] = i
    /\ result = config[2][1]

\* C9: a file one call moved is moved by no later call: it is in its folder's
\* sub-directory and not in the target directory, later listings do not hold
\* it, and a later call that returns has skipped that sub-directory as a
\* non-file.
SecondRunMovesNothingAgain ==
    \A rec \in log :
        rec.kind = "moved" =>
            /\ \A later \in log :
                   (later.name = rec.name /\ later.kind = "moved") =>
                       later.run = rec.run
            /\ RelocatedTo(rec.name, rec.folder)
            /\ ~is_file(top[rec.folder])
            /\ rec.run < run => rec.name \notin listing
            /\ (rec.run < run /\ pc = "done") =>
                   Outcome(run, rec.folder, "skipped-not-a-file")

\* C9, its case: the first call moved a file, the second has returned
SecondRunMovesNothingAgainWitness ==
    /\ run = 2
    /\ pc = "done"
    /\ \E rec \in log :
           /\ rec.run = 1
           /\ rec.kind = "moved"
           /\ Outcome(2, rec.folder, "skipped-not-a-file")

\* C10: every regular file that was in the target directory or in a folder's
\* sub-directory is still there under its name, or, for a file of the target
\* directory with a folder, in that folder's sub-directory; when the
\* sub-directory already held a file of that name the move failed and both
\* files are where they were.
NoFileLostOrOverwritten ==
    /\ \A c \in FolderNames, n \in FileNames :
           sub0[c][n] = "old" => (top[c] = "dir" /\ sub[c][n] = "old")
    /\ \A n \in Names :
           top0[n] = "file" =>
               \/ top[n] = "file" /\ InPlace(n)
               \/ /\ n \in FileNames
                  /\ FolderOf(n) \in FolderNames
                  /\ RelocatedTo(n, FolderOf(n))
                  /\ \A c \in FolderNames \ {FolderOf(n)} : sub[c][n] = sub0[c][n]
    /\ \A n \in FileNames :
           (/\ top0[n] = "file"
            /\ FolderOf(n) \in FolderNames
            /\ sub0[FolderOf(n)][n] = "old") =>
               /\ top[n] = "file"
               /\ (~dryRun /\ n \in listing \ todo) => Outcome(run, n, "failed")

\* C10, its case: a file whose name its folder's sub-directory already held
\* was reached by a call that moves files
NoFileLostOrOverwrittenWitness ==
    /\ pc = "done"
    /\ ~dryRun
    /\ \E n \in FileNames :
           /\ top0[n] = "file"
           /\ FolderOf(n) \in FolderNames
           /\ sub0[FolderOf(n)][n] = "old"
           /\ Outcome(1, n, "failed")

====
